---- MODULE Spec2Model ----
(***************************************************************************)
(* A model of src/index.ts: the capabilities createServer registers on an *)
(* McpServer (six tools, one resource, one prompt), the zod shapes their   *)
(* arguments are parsed with, the handlers, and the life of a request      *)
(* from its arrival to the result handed back to the caller.               *)
(*                                                                         *)
(* Strings of the source that are not ASCII are written here as ASCII      *)
(* stand-ins; the original text is given in the comment beside each.       *)
(* Numbers are integers (and exact quotients of integers): the rounding    *)
(* of IEEE doubles is not modelled.                                        *)
(***************************************************************************)
EXTENDS Integers, Sequences, FiniteSets, TLC

VARIABLES
    hfToken,     \* config.hfToken, captured by createServer's closure
    registered,  \* the (kind, name) pairs registered on the server
    now,         \* the wall clock read by new Date()
    pc,          \* per request slot: "idle", "invoked", "awaiting", "done"
    req,         \* per slot: the request (kind, name, arguments) in flight
    validated,   \* per slot: the parsed arguments the handler was called with
    sent,        \* per slot: the outbound request the handler issued, if any
    answer,      \* per slot: the upstream answer the handler got, if any
    outcome      \* per slot: how the dispatch completed

vars == <<hfToken, registered, now, pc, req, validated, sent, answer, outcome>>

(***************************************************************************)
(* Bounds of the model.                                                    *)
(***************************************************************************)
\* the clock takes the values 0..MaxTime (hours since the server started)
MaxTime == 1
\* an upstream geocoding answer lists at most MaxResults places
MaxResults == 2

Slots == {1, 2}

(***************************************************************************)
(* JavaScript values as they arrive from the transport.                    *)
(***************************************************************************)
Num(n) == [t |-> "number", n |-> n, s |-> ""]
Str(s) == [t |-> "string", n |-> 0, s |-> s]
Bool(b) == [t |-> "boolean", n |-> 0, s |-> IF b THEN "true" ELSE "false"]

\* an object with no keys
EmptyMap == [k \in {} |-> Num(0)]

(***************************************************************************)
(* zod: the schema builders used by the source, and parsing.               *)
(***************************************************************************)
ZBase(kind) ==
    [kind |-> kind, hasMin |-> FALSE, min |-> 0, hasMax |-> FALSE, max |-> 0,
     values |-> {}, optional |-> FALSE, hasDefault |-> FALSE,
     default |-> Num(0)]

\* z.string()
ZString == ZBase("string")
\* z.number()
ZNumber == ZBase("number")
\* z.enum([...])
ZEnum(vals) == [ZBase("enum") EXCEPT !.values = vals]
\* .min(m): the value must be >= m
Min(z, m) == [z EXCEPT !.hasMin = TRUE, !.min = m]
\* .max(m): the value must be <= m
Max(z, m) == [z EXCEPT !.hasMax = TRUE, !.max = m]
\* .optional()
Optional(z) == [z EXCEPT !.optional = TRUE]
\* .default(v)
Default(z, v) == [z EXCEPT !.hasDefault = TRUE, !.default = v]

Issue(path, code, message) == [path |-> path, code |-> code, message |-> message]

\* The checks of a ZodNumber: .min(m) raises too_small for a value below m,
\* .max(m) raises too_big for a value above m; m itself passes both.
\* (mutant) the minimum itself is rejected
TooSmallExclusive(z, n) == z.hasMin /\ n <= z.min
TooSmall(z, n) == z.hasMin /\ n < z.min
\* (mutant) the maximum is never checked
TooBigNever(z, n) == FALSE
TooBig(z, n) == z.hasMax /\ n > z.max

\* Parsing a value that is there against the inner type: the issues found.
TypeIssues(z, path, v) ==
    CASE z.kind = "string" ->
            IF v.t = "string" THEN <<>>
            ELSE <<Issue(path, "invalid_type", "Expected string")>>
      [] z.kind = "number" ->
            IF v.t # "number"
            THEN <<Issue(path, "invalid_type", "Expected number")>>
            ELSE (IF TooSmall(z, v.n)
                  THEN <<Issue(path, "too_small", "Number must be greater than or equal to " \o ToString(z.min))>>
                  ELSE <<>>)
                 \o
                 (IF TooBig(z, v.n)
                  THEN <<Issue(path, "too_big", "Number must be less than or equal to " \o ToString(z.max))>>
                  ELSE <<>>)
      [] z.kind = "enum" ->
            IF v.t # "string"
            THEN <<Issue(path, "invalid_type", "Expected enum value")>>
            ELSE IF v.s \notin z.values
            THEN <<Issue(path, "invalid_enum_value", "Invalid enum value")>>
            ELSE <<>>

\* Parsing one key of an object. raw is the argument object. The result
\* says whether the key is set in the output, its value, and the issues.
ParseField(z, path, raw) ==
    LET present == path \in DOMAIN raw
        useDefault == ~present /\ z.hasDefault
        has == present \/ useDefault
        v == IF present THEN raw[path] ELSE z.default
    IN  IF ~has
        THEN [has |-> FALSE, value |-> Num(0),
              issues |-> IF z.optional THEN <<>>
                         ELSE <<Issue(path, "invalid_type", "Required")>>]
        ELSE [has |-> TRUE, value |-> v, issues |-> TypeIssues(z, path, v)]

\* A shape is a sequence of [name, type] in the order of declaration.
ShapeKeys(shape) == {shape[i].name : i \in 1..Len(shape)}
ShapeType(shape, k) == shape[CHOOSE i \in 1..Len(shape) : shape[i].name = k].type

RECURSIVE ShapeIssues(_, _, _)
ShapeIssues(shape, raw, i) ==
    IF i > Len(shape) THEN <<>>
    ELSE ParseField(shape[i].type, shape[i].name, raw).issues
         \o ShapeIssues(shape, raw, i + 1)

\* z.object(shape).safeParse(raw): every key of the shape is parsed, the
\* issues of all of them are collected; keys not in the shape are stripped.
SafeParse(shape, raw) ==
    LET issues == ShapeIssues(shape, raw, 1)
        keys == {k \in ShapeKeys(shape) : ParseField(ShapeType(shape, k), k, raw).has}
    IN  [success |-> issues = <<>>,
         issues |-> issues,
         data |-> [k \in keys |-> ParseField(ShapeType(shape, k), k, raw).value]]

Field(name, type) == [name |-> name, type |-> type]

(***************************************************************************)
(* The shapes of the registered capabilities.                              *)
(***************************************************************************)
\* (mutant) the default language is en
greetingShapeDefaultEn ==
    << [name |-> "name", type |-> ZString],
       [name |-> "language", type |-> Default(Optional(ZEnum({"ko", "en"})), Str("en"))] >>

greetingShape ==
    << Field("name", ZString),
       Field("language", Default(Optional(ZEnum({"ko", "en"})), Str("ko"))) >>

\* (mutant) a is optional
calculatorShapeOptionalA ==
    << [name |-> "a", type |-> Optional(ZNumber)],
       [name |-> "b", type |-> ZNumber],
       [name |-> "operator", type |-> ZEnum({"+", "-", "*", "/"})] >>

calculatorShape ==
    << Field("a", ZNumber),
       Field("b", ZNumber),
       Field("operator", ZEnum({"+", "-", "*", "/"})) >>

get_timeShape == << Field("timeZone", ZString) >>

generate_imageShape == << Field("prompt", ZString) >>

geocodeShape ==
    << Field("query", ZString),
       Field("limit", Default(Optional(Max(Min(ZNumber, 1), 40)), Num(1))) >>

get_weatherShape ==
    << Field("latitude", Max(Min(ZNumber, -90), 90)),
       Field("longitude", Max(Min(ZNumber, -180), 180)),
       Field("timezone", Default(Optional(ZString), Str("auto"))),
       Field("forecast_days", Default(Optional(Max(Min(ZNumber, 1), 16)), Num(3))) >>

code_reviewShape ==
    << Field("code", ZString),
       Field("language", Optional(ZString)),
       Field("focus_areas", Optional(ZString)),
       Field("include_suggestions", Optional(ZString)) >>

\* a resource takes no arguments
NoShape == <<>>

Cap(kind, name) == <<kind, name>>

\* What createServer registers: server.tool x 6, server.resource, server.prompt.
Registrations ==
    { Cap("tool", "greeting"), Cap("tool", "calculator"), Cap("tool", "get_time"),
      Cap("tool", "generate_image"), Cap("tool", "geocode"), Cap("tool", "get_weather"),
      Cap("resource", "server://info"), Cap("prompt", "code_review") }

ShapeOf(name) ==
    CASE name = "greeting" -> greetingShape
      [] name = "calculator" -> calculatorShape
      [] name = "get_time" -> get_timeShape
      [] name = "generate_image" -> generate_imageShape
      [] name = "geocode" -> geocodeShape
      [] name = "get_weather" -> get_weatherShape
      [] name = "code_review" -> code_reviewShape
      [] OTHER -> NoShape

(***************************************************************************)
(* How an async handler completes: it returns a value or it throws.        *)
(***************************************************************************)
Return(v) == [completion |-> "return", value |-> v]
\* throw new Error(message)
Throw(message) == [completion |-> "throw", message |-> message]

TextBlock(t) == [type |-> "text", text |-> t]

\* JSON.stringify(v, null, 2): the text of v. The text determines v.
JSONstringify(v) == [json |-> v]
Null == [t |-> "null", n |-> 0, s |-> ""]

(***************************************************************************)
(* Numbers and their text.  A number is n/d, d > 0.                        *)
(***************************************************************************)
Abs(n) == IF n < 0 THEN -n ELSE n
Rat(n, d) == IF d < 0 THEN [n |-> -n, d |-> -d] ELSE [n |-> n, d |-> d]
Int2Rat(n) == Rat(n, 1)

\* The quotient has at most two decimals.
ExactDecimal(a, b) == b # 0 /\ (Abs(a) * 100) % Abs(b) = 0

\* String(x), ${x}: the decimal text of a number with at most two decimals;
\* negative zero prints as "0".
NumberToString(r) ==
    LET scaled == (Abs(r.n) * 100) \div r.d
        whole == scaled \div 100
        frac == scaled % 100
        sign == IF r.n < 0 /\ scaled # 0 THEN "-" ELSE ""
        digits == IF frac = 0 THEN ""
                  ELSE IF frac % 10 = 0 THEN "." \o ToString(frac \div 10)
                  ELSE IF frac < 10 THEN ".0" \o ToString(frac)
                  ELSE "." \o ToString(frac)
    IN  sign \o ToString(whole) \o digits

(***************************************************************************)
(* greeting                                                                *)
(***************************************************************************)
\* ko: 안녕하세요, ${name}님! 😊   en: Hello, ${name}! 👋
greetingHandler(a) ==
    LET greeting == IF a.language.s = "ko"
                    THEN "Annyeonghaseyo, " \o a.name.s \o "-nim! :)"
                    ELSE "Hello, " \o a.name.s \o "! (wave)"
    IN  Return([content |-> << TextBlock(greeting) >>])

(***************************************************************************)
(* calculator                                                              *)
(***************************************************************************)
\* '0으로 나눌 수 없습니다'
DivideByZeroMessage == "Cannot divide by 0"
\* '지원하지 않는 연산자입니다'
UnsupportedOperatorMessage == "Unsupported operator"

CalcText(a, operator, b, result) ==
    NumberToString(Int2Rat(a)) \o " " \o operator \o " "
        \o NumberToString(Int2Rat(b)) \o " = " \o NumberToString(result)

\* (mutant) the operands of the subtraction are swapped
calculatorHandlerSwapped(args) ==
    LET a == args.a.n
        b == args.b.n
        operator == args.operator.s
        done(result) == Return([content |-> << TextBlock(CalcText(a, operator, b, result)) >>])
    IN  CASE operator = "+" -> done(Int2Rat(a + b))
          [] operator = "-" -> done(Int2Rat(b - a))
          [] operator = "*" -> done(Int2Rat(a * b))
          [] operator = "/" -> IF b = 0 THEN Throw(DivideByZeroMessage)
                               ELSE done(Rat(a, b))
          [] OTHER -> Throw(UnsupportedOperatorMessage)

\* (mutant) no check of the divisor: a / 0 is Infinity, -Infinity or NaN
calculatorHandlerNoZeroCheck(args) ==
    LET a == args.a.n
        b == args.b.n
        operator == args.operator.s
        text(r) == NumberToString(Int2Rat(a)) \o " " \o operator \o " "
                       \o NumberToString(Int2Rat(b)) \o " = " \o r
        done(result) == Return([content |-> << TextBlock(CalcText(a, operator, b, result)) >>])
    IN  CASE operator = "+" -> done(Int2Rat(a + b))
          [] operator = "-" -> done(Int2Rat(a - b))
          [] operator = "*" -> done(Int2Rat(a * b))
          [] operator = "/" ->
                IF b = 0
                THEN Return([content |-> << TextBlock(text(
                        IF a > 0 THEN "Infinity" ELSE IF a < 0 THEN "-Infinity" ELSE "NaN")) >>])
                ELSE done(Rat(a, b))
          [] OTHER -> Throw(UnsupportedOperatorMessage)

calculatorHandler(args) ==
    LET a == args.a.n
        b == args.b.n
        operator == args.operator.s
        done(result) == Return([content |-> << TextBlock(CalcText(a, operator, b, result)) >>])
    IN  CASE operator = "+" -> done(Int2Rat(a + b))
          [] operator = "-" -> done(Int2Rat(a - b))
          [] operator = "*" -> done(Int2Rat(a * b))
          [] operator = "/" -> IF b = 0 THEN Throw(DivideByZeroMessage)
                               ELSE done(Rat(a, b))
          [] OTHER -> Throw(UnsupportedOperatorMessage)

(***************************************************************************)
(* get_time                                                                *)
(***************************************************************************)
\* The time zones Intl knows, with their offset from UTC in minutes; any
\* other name makes Intl.DateTimeFormat throw a RangeError.
TimeZoneOffset ==
    ("Asia/Seoul" :> 540) @@ ("America/New_York" :> -300) @@ ("Asia/Kolkata" :> 330)
        @@ ("UTC" :> 0)

PadStart2(n) == IF n < 10 THEN "0" \o ToString(n) ELSE ToString(n)

\* UTC${offsetSign}${hours}:${minutes}
OffsetString(offset) ==
    LET offsetHours == Abs(offset) \div 60
        offsetMinutes == Abs(offset) % 60
        offsetSign == IF offset >= 0 THEN "+" ELSE "-"
    IN  "UTC" \o offsetSign \o PadStart2(offsetHours) \o ":" \o PadStart2(offsetMinutes)

\* '유효하지 않은 타임존입니다: ${timeZone}. IANA 타임존 형식(예: America/New_York)을 사용해주세요.'
InvalidTimeZoneMessage(timeZone) ==
    "Invalid time zone: " \o timeZone \o ". Use the IANA form (e.g. America/New_York)."

\* clock is what new Date() reads, in hours.
get_timeHandler(args, clock) ==
    LET timeZone == args.timeZone.s
    IN  IF timeZone \notin DOMAIN TimeZoneOffset
        THEN Throw(InvalidTimeZoneMessage(timeZone))
        ELSE LET local == clock * 60 + TimeZoneOffset[timeZone]
                 timeInfo == [timezone |-> timeZone,
                              localTime |-> local,
                              utcTime |-> clock * 60,
                              offset |-> OffsetString(TimeZoneOffset[timeZone]),
                              timestamp |-> clock,
                              date |-> local \div 1440,
                              time |-> local % 1440]
             IN  Return([content |-> << TextBlock(JSONstringify(timeInfo)) >>])


(***************************************************************************)
(* The answers of fetch.                                                   *)
(***************************************************************************)
NoData ==
    [error |-> FALSE, reason |-> "", hasCurrent |-> FALSE, hasDaily |-> FALSE,
     hasUnits |-> FALSE]
Body(json, items, data) == [json |-> json, items |-> items, data |-> data]
\* a body response.json() cannot parse: it rejects with a SyntaxError
InvalidBody == Body("invalid", <<>>, NoData)
NullBody == Body("null", <<>>, NoData)
ArrayBody(items) == Body("array", items, NoData)
ObjectBody(data) == Body("object", <<>>, data)
\* fetch itself rejects (no network, DNS, reset): TypeError('fetch failed')
FetchFailed ==
    [resolved |-> FALSE, ok |-> FALSE, status |-> 0, statusText |-> "", body |-> NullBody]
Http(status, statusText, body) ==
    [resolved |-> TRUE, ok |-> (status >= 200 /\ status <= 299), status |-> status,
     statusText |-> statusText, body |-> body]

FetchFailedMessage == "fetch failed"
SyntaxErrorMessage == "Unexpected token < in JSON at position 0"

NoRequest == [url |-> ""]
NoAnswer == [resolved |-> FALSE, none |-> TRUE]

(***************************************************************************)
(* generate_image                                                          *)
(***************************************************************************)
\* 'hfToken 설정이 필요합니다. Smithery 설정에서 Hugging Face API 토큰을 입력해주세요.'
TokenRequiredMessage == "hfToken is required. Enter the Hugging Face API token in the Smithery settings."
\* '알 수 없는 오류'
UnknownErrorMessage == "unknown error"
\* (mutant) the catch drops the message of what it caught
ImageErrorNoCause(message) == "Error while generating the image"

\* 이미지 생성 중 오류가 발생했습니다: ${...}
ImageError(message) == "Error while generating the image: " \o message

\* !config.hfToken: undefined and '' are both falsy
TokenMissing(token) == token = ""

\* client.textToImage({...}) of a client made for this call
generate_imageRequest(args, token) ==
    [url |-> "huggingface:textToImage", token |-> token, provider |-> "auto",
     model |-> "black-forest-labs/FLUX.1-schnell", inputs |-> args.prompt.s,
     num_inference_steps |-> 5]

\* Buffer.from(arrayBuffer).toString('base64')
Base64(bytes) == [base64 |-> bytes]

\* The answers of textToImage: it rejects with an Error, rejects with a value
\* that is no Error, resolves a Blob, or resolves something without
\* arrayBuffer().
ImageReplies ==
    { [resolved |-> FALSE, isError |-> TRUE, message |-> "Model is overloaded", blob |-> FALSE, bytes |-> ""],
      [resolved |-> FALSE, isError |-> FALSE, message |-> "", blob |-> FALSE, bytes |-> ""],
      [resolved |-> TRUE, isError |-> FALSE, message |-> "", blob |-> TRUE, bytes |-> "PNG"],
      [resolved |-> TRUE, isError |-> FALSE, message |-> "", blob |-> FALSE, bytes |-> ""] }

\* the handler up to its first await: the token check
generate_imageStart(args, token) ==
    IF TokenMissing(token) THEN Throw(ImageError(TokenRequiredMessage))
    ELSE Return(generate_imageRequest(args, token))

\* the handler from the answer of textToImage on
generate_imageHandler(args, reply) ==
    IF ~reply.resolved
    THEN Throw(ImageError(IF reply.isError THEN reply.message ELSE UnknownErrorMessage))
    ELSE IF ~reply.blob
    THEN Throw(ImageError("imageBlob.arrayBuffer is not a function"))
    ELSE Return([content |-> << [type |-> "image", data |-> Base64(reply.bytes),
                                 mimeType |-> "image/png"] >>,
                 annotations |-> [audience |-> <<"user">>, priority |-> Rat(9, 10)]])

(***************************************************************************)
(* geocode                                                                 *)
(***************************************************************************)
\* 지오코딩 중 오류가 발생했습니다: ${...}
GeocodeError(message) == "Error while geocoding: " \o message
\* Nominatim API 오류: ${response.status} ${response.statusText}
NominatimError(status, statusText) ==
    "Nominatim API error: " \o ToString(status) \o " " \o statusText
\* "${query}"에 대한 검색 결과가 없습니다.
NoResultsText(query) == "No results found for \"" \o query \o "\"."

geocodeRequest(args) ==
    [url |-> "https://nominatim.openstreetmap.org/search", q |-> args.query.s,
     format |-> "jsonv2", limit |-> NumberToString(Int2Rat(args.limit.n)),
     addressdetails |-> "1"]

\* What an answer may list: a place, a place with no lat, lon, address or
\* boundingbox, and null (isNull).
Places ==
    { [isNull |-> FALSE, display_name |-> "Seoul", lat |-> "37", lon |-> "127",
       place_id |-> 1, osm_type |-> "relation", osm_id |-> 2, type |-> "city",
       category |-> "boundary", importance |-> 1, hasAddress |-> TRUE,
       hasBoundingbox |-> TRUE],
      [isNull |-> FALSE, display_name |-> "Nowhere", lat |-> "", lon |-> "",
       place_id |-> 3, osm_type |-> "node", osm_id |-> 4, type |-> "hamlet",
       category |-> "place", importance |-> 0, hasAddress |-> FALSE,
       hasBoundingbox |-> FALSE],
      [isNull |-> TRUE, display_name |-> "", lat |-> "", lon |-> "",
       place_id |-> 0, osm_type |-> "", osm_id |-> 0, type |-> "",
       category |-> "", importance |-> 0, hasAddress |-> FALSE,
       hasBoundingbox |-> FALSE] }

PlaceLists == UNION { [1..k -> Places] : k \in 0..MaxResults }

NaN == [t |-> "NaN", n |-> 0, s |-> ""]
FloatText == ("37" :> 37) @@ ("127" :> 127)
\* parseFloat(s)
ParseFloat(s) == IF s \in DOMAIN FloatText THEN Num(FloatText[s]) ELSE NaN

FormatPlace(r) ==
    [display_name |-> r.display_name,
     latitude |-> ParseFloat(r.lat),
     longitude |-> ParseFloat(r.lon),
     coordinates |-> [lat |-> ParseFloat(r.lat), lon |-> ParseFloat(r.lon)],
     place_id |-> r.place_id,
     osm_type |-> r.osm_type,
     osm_id |-> r.osm_id,
     type |-> r.type,
     category |-> r.category,
     importance |-> r.importance,
     address |-> IF r.hasAddress THEN Str("address") ELSE Null,
     boundingbox |-> IF r.hasBoundingbox THEN Str("boundingbox") ELSE Null]

GeocodeReplies ==
    { FetchFailed,
      Http(500, "Internal Server Error", NullBody),
      Http(200, "OK", InvalidBody),
      Http(200, "OK", NullBody),
      Http(200, "OK", ObjectBody(NoData)) }
    \cup { Http(200, "OK", ArrayBody(items)) : items \in PlaceLists }

\* (mutant) only results.length === 0
NoMatchesLengthOnly(body) == body.json = "array" /\ Len(body.items) = 0

\* !results || results.length === 0
NoMatches(body) ==
    \/ body.json = "null"
    \/ body.json = "array" /\ Len(body.items) = 0

\* (mutant) no matches: an envelope without a content block
geocodeHandlerEmptyContent(args, reply) ==
    IF ~reply.resolved THEN Throw(GeocodeError(FetchFailedMessage))
    ELSE IF ~reply.ok
    THEN Throw(GeocodeError(NominatimError(reply.status, reply.statusText)))
    ELSE IF reply.body.json = "invalid" THEN Throw(GeocodeError(SyntaxErrorMessage))
    ELSE IF NoMatches(reply.body) THEN Return([content |-> << >>])
    ELSE Throw(GeocodeError("results.map is not a function"))

\* the handler from the answer of fetch on; every throw is caught and
\* rethrown with the geocoding prefix
geocodeHandler(args, reply) ==
    IF ~reply.resolved THEN Throw(GeocodeError(FetchFailedMessage))
    ELSE IF ~reply.ok
    THEN Throw(GeocodeError(NominatimError(reply.status, reply.statusText)))
    ELSE IF reply.body.json = "invalid" THEN Throw(GeocodeError(SyntaxErrorMessage))
    ELSE IF NoMatches(reply.body)
    THEN Return([content |-> << TextBlock(NoResultsText(args.query.s)) >>])
    ELSE IF reply.body.json # "array"
    THEN Throw(GeocodeError("results.map is not a function"))
    ELSE IF \E i \in 1..Len(reply.body.items) : reply.body.items[i].isNull
    THEN Throw(GeocodeError("Cannot read properties of null (reading 'display_name')"))
    ELSE LET formatted == [i \in 1..Len(reply.body.items) |-> FormatPlace(reply.body.items[i])]
         IN  Return([content |-> << TextBlock(JSONstringify(formatted)) >>])

(***************************************************************************)
(* get_weather                                                             *)
(***************************************************************************)
\* Open-Meteo API 오류: ${...}
OpenMeteoError(detail) == "Open-Meteo API error: " \o detail

get_weatherRequest(args) ==
    [url |-> "https://api.open-meteo.com/v1/forecast",
     latitude |-> NumberToString(Int2Rat(args.latitude.n)),
     longitude |-> NumberToString(Int2Rat(args.longitude.n)),
     timezone |-> args.timezone.s,
     forecast_days |-> NumberToString(Int2Rat(args.forecast_days.n)),
     current |-> "temperature_2m,relative_humidity_2m,weather_code,wind_speed_10m",
     daily |-> "temperature_2m_max,temperature_2m_min,precipitation_sum,weather_code"]

WeatherData(hasCurrent, hasDaily, hasUnits) ==
    [error |-> FALSE, reason |-> "", hasCurrent |-> hasCurrent, hasDaily |-> hasDaily,
     hasUnits |-> hasUnits]
\* {error: true, reason}; reason "" stands for no reason given
WeatherFault(reason) == [NoData EXCEPT !.error = TRUE, !.reason = reason]

WeatherReplies ==
    { FetchFailed,
      Http(500, "Internal Server Error", NullBody),
      Http(200, "OK", InvalidBody),
      Http(200, "OK", NullBody),
      Http(200, "OK", ObjectBody(WeatherFault("Latitude must be in range"))),
      Http(200, "OK", ObjectBody(WeatherFault(""))),
      Http(200, "OK", ObjectBody(WeatherData(TRUE, TRUE, TRUE))),
      Http(200, "OK", ObjectBody(WeatherData(FALSE, FALSE, FALSE))) }

FormatWeather(data) ==
    [location |-> [latitude |-> "data.latitude", longitude |-> "data.longitude",
                   timezone |-> "data.timezone", elevation |-> "data.elevation"],
     current |-> IF data.hasCurrent THEN Str("current") ELSE Null,
     daily |-> IF data.hasDaily THEN Str("daily") ELSE Null,
     units |-> IF data.hasUnits
               THEN [temperature |-> "data.current_units.temperature_2m",
                     humidity |-> "data.current_units.relative_humidity_2m",
                     wind_speed |-> "data.current_units.wind_speed_10m",
                     precipitation |-> "data.daily_units.precipitation_sum"]
               ELSE [temperature |-> "C", humidity |-> "%", wind_speed |-> "km/h",
                     precipitation |-> "mm"]]

\* the handler from the answer of fetch on; nothing is caught here, so a
\* rejection of fetch or of response.json() is the handler's own rejection
get_weatherHandler(args, reply) ==
    IF ~reply.resolved THEN Throw(FetchFailedMessage)
    ELSE IF ~reply.ok THEN Throw(OpenMeteoError(ToString(reply.status)))
    ELSE IF reply.body.json = "invalid" THEN Throw(SyntaxErrorMessage)
    ELSE IF reply.body.json = "null"
    THEN Throw("Cannot read properties of null (reading 'error')")
    ELSE IF reply.body.data.error
    THEN Throw(OpenMeteoError(IF reply.body.data.reason # "" THEN reply.body.data.reason
                              ELSE UnknownErrorMessage))
    ELSE Return([content |-> << TextBlock(JSONstringify(FormatWeather(reply.body.data))) >>])


(***************************************************************************)
(* What a handler's body raises, before any catch of the handler.          *)
(***************************************************************************)
\* new Intl.DateTimeFormat('ko-KR', {timeZone, ...}) with a name Intl does not
\* know: RangeError
RangeErrorMessage(timeZone) == "Invalid time zone specified: " \o timeZone

\* The text of the failure raised in the body of the handler of name when it
\* is called with args, reads the token and gets reply: the message of the
\* Error thrown there by the platform or by a throw statement; of a non-OK
\* forecast answer the status, of a forecast answer that reports an error its
\* reason, which are what the throw statements of get_weather interpolate. A
\* rejection with a value that is no Error has no message: the text the catch
\* puts in its place stands for it.
Failure(name, args, reply, token) ==
    CASE name = "calculator" ->
            IF args.operator.s = "/" THEN DivideByZeroMessage ELSE UnsupportedOperatorMessage
      [] name = "get_time" -> RangeErrorMessage(args.timeZone.s)
      [] name = "generate_image" ->
            IF TokenMissing(token) THEN TokenRequiredMessage
            ELSE IF ~reply.resolved
            THEN (IF reply.isError THEN reply.message ELSE UnknownErrorMessage)
            ELSE "imageBlob.arrayBuffer is not a function"
      [] name = "geocode" ->
            IF ~reply.resolved THEN FetchFailedMessage
            ELSE IF ~reply.ok THEN NominatimError(reply.status, reply.statusText)
            ELSE IF reply.body.json = "invalid" THEN SyntaxErrorMessage
            ELSE IF reply.body.json # "array" THEN "results.map is not a function"
            ELSE "Cannot read properties of null (reading 'display_name')"
      [] name = "get_weather" ->
            IF ~reply.resolved THEN FetchFailedMessage
            ELSE IF ~reply.ok THEN ToString(reply.status)
            ELSE IF reply.body.json = "invalid" THEN SyntaxErrorMessage
            ELSE IF reply.body.json = "null"
            THEN "Cannot read properties of null (reading 'error')"
            ELSE IF reply.body.data.reason # "" THEN reply.body.data.reason
            ELSE UnknownErrorMessage
      [] OTHER -> ""

(***************************************************************************)
(* server://info                                                           *)
(***************************************************************************)
\* The entries of availableTools, resources and prompts as the handler
\* writes them; the description texts are left out.
Tool(name, parameters) == [name |-> name, parameters |-> parameters]

\* (mutant) the maximum of geocode.limit is listed as 50, get_weather is not listed
availableToolsStale ==
    << Tool("greeting",
            [name |-> [type |-> "string", required |-> TRUE],
             language |-> [type |-> "enum", values |-> {"ko", "en"}, required |-> FALSE,
                           default |-> Str("ko")]]),
       Tool("calculator",
            [a |-> [type |-> "number", required |-> TRUE],
             b |-> [type |-> "number", required |-> TRUE],
             operator |-> [type |-> "enum", values |-> {"+", "-", "*", "/"},
                           required |-> TRUE]]),
       Tool("get_time", [timeZone |-> [type |-> "string", required |-> TRUE]]),
       Tool("generate_image", [prompt |-> [type |-> "string", required |-> TRUE]]),
       Tool("geocode",
            [query |-> [type |-> "string", required |-> TRUE],
             limit |-> [type |-> "number", required |-> FALSE, default |-> Num(1),
                        min |-> 1, max |-> 50]]) >>

availableTools ==
    << Tool("greeting",
            [name |-> [type |-> "string", required |-> TRUE],
             language |-> [type |-> "enum", values |-> {"ko", "en"}, required |-> FALSE,
                           default |-> Str("ko")]]),
       Tool("calculator",
            [a |-> [type |-> "number", required |-> TRUE],
             b |-> [type |-> "number", required |-> TRUE],
             operator |-> [type |-> "enum", values |-> {"+", "-", "*", "/"},
                           required |-> TRUE]]),
       Tool("get_time", [timeZone |-> [type |-> "string", required |-> TRUE]]),
       Tool("generate_image", [prompt |-> [type |-> "string", required |-> TRUE]]),
       Tool("geocode",
            [query |-> [type |-> "string", required |-> TRUE],
             limit |-> [type |-> "number", required |-> FALSE, default |-> Num(1),
                        min |-> 1, max |-> 40]]),
       Tool("get_weather",
            [latitude |-> [type |-> "number", required |-> TRUE, min |-> -90, max |-> 90],
             longitude |-> [type |-> "number", required |-> TRUE, min |-> -180, max |-> 180],
             timezone |-> [type |-> "string", required |-> FALSE, default |-> Str("auto")],
             forecast_days |-> [type |-> "number", required |-> FALSE, default |-> Num(3),
                                min |-> 1, max |-> 16]]) >>

listedResources == << [uri |-> "server://info", name |-> "server info and tool list"] >>

listedPrompts ==
    << Tool("code_review",
            [code |-> [type |-> "string", required |-> TRUE],
             language |-> [type |-> "string", required |-> FALSE, default |-> Str("auto")],
             focus_areas |-> [type |-> "string", required |-> FALSE, default |-> Str("all")],
             include_suggestions |-> [type |-> "string", required |-> FALSE,
                                      default |-> Str("true")]]) >>

\* clock is what new Date() and process.uptime() read.
serverInfo(clock) ==
    [server |-> [name |-> "typescript-mcp-server", version |-> "1.0.0",
                 timestamp |-> clock, uptime |-> clock],
     capabilities |-> [tools |-> Len(availableTools), resources |-> 1, prompts |-> 1],
     tools |-> availableTools,
     resources |-> listedResources,
     prompts |-> listedPrompts]

server_infoHandler(clock) ==
    Return([contents |-> << [uri |-> "server://info", mimeType |-> "application/json",
                             text |-> JSONstringify(serverInfo(clock))] >>])

(***************************************************************************)
(* code_review                                                             *)
(***************************************************************************)
\* focus_areas.split(',').map(area => area.trim()), on the texts requests carry
SplitTrim(text) ==
    CASE text = "quality, performance" -> <<"quality", "performance">>
      [] text = "security,all" -> <<"security", "all">>
      [] OTHER -> <<text>>

\* include_suggestions.toLowerCase(), on the texts requests carry
ToLowerCase(text) ==
    CASE text = "TRUE" -> "true"
      [] text = "False" -> "false"
      [] OTHER -> text

Includes(list, x) == \E i \in 1..Len(list) : list[i] = x

\* the five sections, by the focus area that selects each
Sections ==
    << [area |-> "quality", text |-> "## 1. Code quality"],
       [area |-> "performance", text |-> "## 2. Performance"],
       [area |-> "security", text |-> "## 3. Security"],
       [area |-> "maintainability", text |-> "## 4. Maintainability"],
       [area |-> "best_practices", text |-> "## 5. Best practices"] >>

RECURSIVE PushSections(_, _)
\* the if (...) sections.push(...) statements from the i-th on
PushSections(finalFocusAreas, i) ==
    IF i > Len(Sections) THEN <<>>
    ELSE (IF Includes(finalFocusAreas, "all") \/ Includes(finalFocusAreas, Sections[i].area)
          THEN <<Sections[i].text>> ELSE <<>>)
         \o PushSections(finalFocusAreas, i + 1)

RECURSIVE Join(_, _)
\* list.join(sep)
Join(list, sep) ==
    IF Len(list) = 0 THEN ""
    ELSE IF Len(list) = 1 THEN list[1]
    ELSE list[1] \o sep \o Join(Tail(list), sep)

\* The code fence, three backquotes in the source, is written ~~~ here.
code_reviewHandler(args) ==
    LET finalLanguage == IF "language" \in DOMAIN args THEN args.language.s ELSE "auto"
        finalFocusAreas ==
            IF "focus_areas" \in DOMAIN args /\ args.focus_areas.s # ""
            THEN SplitTrim(args.focus_areas.s) ELSE <<"all">>
        finalIncludeSuggestions ==
            IF "include_suggestions" \in DOMAIN args /\ args.include_suggestions.s # ""
            THEN ToLowerCase(args.include_suggestions.s) = "true" ELSE TRUE
        footer == IF finalIncludeSuggestions THEN "\nInclude concrete suggestions." ELSE ""
        sections == PushSections(finalFocusAreas, 1)
        languageInfo == IF finalLanguage # "auto"
                        THEN "\n**language**: " \o finalLanguage \o "\n"
                        ELSE "\n**language**: auto-detect\n"
        promptText == "Review the following code." \o languageInfo \o "\n"
                      \o Join(sections, "\n\n") \o "\n\n" \o "---\n\n"
                      \o "**code:**\n\n" \o "~~~"
                      \o (IF finalLanguage # "auto" THEN finalLanguage ELSE "") \o "\n"
                      \o args.code.s \o "\n~~~" \o footer
    IN  Return([messages |-> << [role |-> "user", content |-> TextBlock(promptText)] >>])

(***************************************************************************)
(* Failures before the handler runs, as the server reports them.           *)
(***************************************************************************)
NotFound(kind, name) ==
    [completion |-> "throw", message |-> "no such " \o kind \o " named " \o name,
     issues |-> <<>>]

RECURSIVE IssuesText(_)
IssuesText(issues) ==
    IF Len(issues) = 0 THEN ""
    ELSE issues[1].path \o ": " \o issues[1].message
         \o (IF Len(issues) = 1 THEN "" ELSE "; " \o IssuesText(Tail(issues)))

InvalidArguments(kind, name, issues) ==
    [completion |-> "throw",
     message |-> "Invalid arguments for " \o kind \o " " \o name \o ": " \o IssuesText(issues),
     issues |-> issues]


(***************************************************************************)
(* The requests the transport may hand over.                               *)
(***************************************************************************)
\* the key k absent, or set to one of the values S
Opt(k, S) == {EmptyMap} \cup {k :> v : v \in S}
Merge(A, B) == {a @@ b : a \in A, b \in B}
\* with and without a key the shape does not declare
WithExtra(A) == Merge(A, Opt("extra", {Bool(TRUE)}))

GreetingArgs ==
    WithExtra(Merge(Opt("name", {Str("Sam"), Str(""), Num(7)}),
                    Opt("language", {Str("ko"), Str("en"), Str("fr"), Num(1)})))

\* A division whose quotient NumberToString cannot print is left out.
Printable(m) ==
    ({"a", "b", "operator"} \subseteq DOMAIN m
     /\ m.a.t = "number" /\ m.b.t = "number" /\ m.operator.s = "/" /\ m.b.n # 0)
        => ExactDecimal(m.a.n, m.b.n)

CalculatorArgs ==
    { m \in WithExtra(Merge(Merge(Opt("a", {Num(-3), Num(0), Num(1), Num(6), Str("6")}),
                                  Opt("b", {Num(-2), Num(0), Num(3), Bool(FALSE)})),
                            Opt("operator", {Str("+"), Str("-"), Str("*"), Str("/"),
                                             Str("%"), Num(1)}))) :
        Printable(m) }

GetTimeArgs ==
    WithExtra(Opt("timeZone", {Str("Asia/Seoul"), Str("America/New_York"),
                               Str("Asia/Kolkata"), Str("Mars/Phobos"), Str(""), Num(9)}))

GenerateImageArgs == WithExtra(Opt("prompt", {Str("a cat"), Num(1)}))

GeocodeArgs ==
    WithExtra(Merge(Opt("query", {Str(""), Str("Seoul"), Num(1)}),
                    Opt("limit", {Num(0), Num(1), Num(2), Num(40), Num(41), Str("5")})))

GetWeatherArgs ==
    WithExtra(Merge(Merge(Opt("latitude", {Num(-91), Num(-90), Num(37), Num(90), Num(91),
                                           Num(95), Str("37")}),
                          Opt("longitude", {Num(-181), Num(-180), Num(0), Num(180),
                                            Num(181)})),
                    Merge(Opt("timezone", {Str("Asia/Seoul"), Num(9)}),
                          Opt("forecast_days", {Num(0), Num(1), Num(16), Num(17)}))))

CodeReviewArgs ==
    Merge(Merge(Opt("code", {Str("x = 1"), Num(1)}),
                Opt("language", {Str("python"), Str("")})),
          Merge(Opt("focus_areas", {Str("security"), Str("quality, performance"),
                                    Str("security,all"), Str("bogus"), Str("")}),
                Opt("include_suggestions", {Str("TRUE"), Str("False"), Str("")})))

Request(kind, name, arguments) == [kind |-> kind, name |-> name, arguments |-> arguments]

Requests ==
    { Request("tool", "greeting", m) : m \in GreetingArgs }
    \cup { Request("tool", "calculator", m) : m \in CalculatorArgs }
    \cup { Request("tool", "get_time", m) : m \in GetTimeArgs }
    \cup { Request("tool", "generate_image", m) : m \in GenerateImageArgs }
    \cup { Request("tool", "geocode", m) : m \in GeocodeArgs }
    \cup { Request("tool", "get_weather", m) : m \in GetWeatherArgs }
    \cup { Request("resource", "server://info", m) : m \in WithExtra({EmptyMap}) }
    \cup { Request("prompt", "code_review", m) : m \in CodeReviewArgs }
    \cup { Request("tool", "translate", EmptyMap),
           Request("resource", "greeting", "name" :> Str("Sam")),
           Request("prompt", "calculator", EmptyMap),
           Request("tool", "server://info", EmptyMap),
           Request("tool", "code_review", "code" :> Str("x = 1")) }

\* the requests of the runs with two dispatches in flight
ConcurrentRequests ==
    { Request("tool", "calculator", ("a" :> Num(6)) @@ ("b" :> Num(3)) @@ ("operator" :> Str("/"))),
      Request("tool", "calculator", ("a" :> Num(1)) @@ ("b" :> Num(0)) @@ ("operator" :> Str("/"))),
      Request("tool", "greeting", "name" :> Str("Sam")),
      Request("tool", "greeting", EmptyMap),
      Request("tool", "get_time", "timeZone" :> Str("Asia/Seoul")),
      Request("tool", "get_time", "timeZone" :> Str("Mars/Phobos")),
      Request("tool", "generate_image", "prompt" :> Str("a cat")),
      Request("tool", "geocode", "query" :> Str("Seoul")),
      Request("tool", "get_weather", ("latitude" :> Num(37)) @@ ("longitude" :> Num(0))),
      Request("resource", "server://info", EmptyMap),
      Request("prompt", "code_review", "code" :> Str("x = 1")),
      Request("tool", "translate", EmptyMap) }

(***************************************************************************)
(* The state machine.                                                      *)
(***************************************************************************)
NoOutcome == [completion |-> "none"]
NoRequestYet == Request("", "", EmptyMap)

Init ==
    /\ hfToken \in {"", "hf_secret"}
    /\ registered = Registrations
    /\ now = 0
    /\ pc = [i \in Slots |-> "idle"]
    /\ req = [i \in Slots |-> NoRequestYet]
    /\ validated = [i \in Slots |-> EmptyMap]
    /\ sent = [i \in Slots |-> NoRequest]
    /\ answer = [i \in Slots |-> NoAnswer]
    /\ outcome = [i \in Slots |-> NoOutcome]

\* the handler of slot i completes with c
Complete(i, c) ==
    /\ pc' = [pc EXCEPT ![i] = "done"]
    /\ outcome' = [outcome EXCEPT ![i] = c]

\* resolve(kind, name)
Resolve(kind, name) == Cap(kind, name) \in registered

\* A request arrives in slot i: it is resolved, its arguments are parsed
\* against the capability's shape, and only then is the handler called.
Dispatch(i, r) ==
    /\ pc[i] = "idle"
    /\ req' = [req EXCEPT ![i] = r]
    /\ sent' = [sent EXCEPT ![i] = NoRequest]
    /\ answer' = [answer EXCEPT ![i] = NoAnswer]
    /\ IF ~Resolve(r.kind, r.name)
       THEN /\ Complete(i, NotFound(r.kind, r.name))
            /\ validated' = [validated EXCEPT ![i] = EmptyMap]
       ELSE LET parsed == SafeParse(ShapeOf(r.name), r.arguments)
            IN  IF ~parsed.success
                THEN /\ Complete(i, InvalidArguments(r.kind, r.name, parsed.issues))
                     /\ validated' = [validated EXCEPT ![i] = EmptyMap]
                ELSE /\ pc' = [pc EXCEPT ![i] = "invoked"]
                     /\ validated' = [validated EXCEPT ![i] = parsed.data]
                     /\ outcome' = [outcome EXCEPT ![i] = NoOutcome]
    /\ UNCHANGED <<hfToken, registered, now>>

Invoked(i, name) == pc[i] = "invoked" /\ req[i].name = name
Awaiting(i, name) == pc[i] = "awaiting" /\ req[i].name = name

\* a handler that completes without outbound work
RunHandler(i, c) ==
    /\ Complete(i, c)
    /\ UNCHANGED <<hfToken, registered, now, req, validated, sent, answer>>

\* a handler resumes with the answer to its outbound request and completes
Resume(i, reply, c) ==
    /\ Complete(i, c)
    /\ answer' = [answer EXCEPT ![i] = reply]
    /\ UNCHANGED <<hfToken, registered, now, req, validated, sent>>

\* a handler issues its outbound request r and awaits the answer
Await(i, r) ==
    /\ pc' = [pc EXCEPT ![i] = "awaiting"]
    /\ sent' = [sent EXCEPT ![i] = r]
    /\ UNCHANGED <<hfToken, registered, now, req, validated, answer, outcome>>

Greeting(i) == Invoked(i, "greeting") /\ RunHandler(i, greetingHandler(validated[i]))

\* (mutant) a throw of the handler escapes and ends every other call in flight
CalculatorCrash(i) ==
    /\ Invoked(i, "calculator")
    /\ LET c == calculatorHandler(validated[i])
           hit(j) == j = i \/ (c.completion = "throw" /\ pc[j] \in {"invoked", "awaiting"})
       IN  /\ pc' = [j \in Slots |-> IF hit(j) THEN "done" ELSE pc[j]]
           /\ outcome' = [j \in Slots |-> IF hit(j) THEN c ELSE outcome[j]]
    /\ UNCHANGED <<hfToken, registered, now, req, validated, sent, answer>>

Calculator(i) == Invoked(i, "calculator") /\ RunHandler(i, calculatorHandler(validated[i]))

GetTime(i) == Invoked(i, "get_time") /\ RunHandler(i, get_timeHandler(validated[i], now))

GenerateImage(i) ==
    /\ Invoked(i, "generate_image")
    /\ LET start == generate_imageStart(validated[i], hfToken)
       IN  IF start.completion = "throw" THEN RunHandler(i, start)
           ELSE Await(i, start.value)

GenerateImageReply(i, reply) ==
    /\ Awaiting(i, "generate_image")
    /\ Resume(i, reply, generate_imageHandler(validated[i], reply))

Geocode(i) == Invoked(i, "geocode") /\ Await(i, geocodeRequest(validated[i]))

GeocodeReply(i, reply) ==
    /\ Awaiting(i, "geocode")
    /\ Resume(i, reply, geocodeHandler(validated[i], reply))

GetWeather(i) == Invoked(i, "get_weather") /\ Await(i, get_weatherRequest(validated[i]))

GetWeatherReply(i, reply) ==
    /\ Awaiting(i, "get_weather")
    /\ Resume(i, reply, get_weatherHandler(validated[i], reply))

ServerInfo(i) == Invoked(i, "server://info") /\ RunHandler(i, server_infoHandler(now))

CodeReview(i) == Invoked(i, "code_review") /\ RunHandler(i, code_reviewHandler(validated[i]))

\* (mutant) a capability whose call failed is taken off the server
RespondUnregisterFailed(i) ==
    /\ pc[i] = "done"
    /\ pc' = [pc EXCEPT ![i] = "idle"]
    /\ req' = [req EXCEPT ![i] = NoRequestYet]
    /\ validated' = [validated EXCEPT ![i] = EmptyMap]
    /\ sent' = [sent EXCEPT ![i] = NoRequest]
    /\ answer' = [answer EXCEPT ![i] = NoAnswer]
    /\ outcome' = [outcome EXCEPT ![i] = NoOutcome]
    /\ registered' = IF outcome[i].completion = "throw"
                     THEN registered \ {Cap(req[i].kind, req[i].name)}
                     ELSE registered
    /\ UNCHANGED <<hfToken, now>>

\* (mutant) a failed call leaves the configured token cleared
RespondClearsToken(i) ==
    /\ pc[i] = "done"
    /\ pc' = [pc EXCEPT ![i] = "idle"]
    /\ req' = [req EXCEPT ![i] = NoRequestYet]
    /\ validated' = [validated EXCEPT ![i] = EmptyMap]
    /\ sent' = [sent EXCEPT ![i] = NoRequest]
    /\ answer' = [answer EXCEPT ![i] = NoAnswer]
    /\ outcome' = [outcome EXCEPT ![i] = NoOutcome]
    /\ hfToken' = IF outcome[i].completion = "throw" THEN "" ELSE hfToken
    /\ UNCHANGED <<registered, now>>

\* The caller has its result; everything of the call is dropped.
Respond(i) ==
    /\ pc[i] = "done"
    /\ pc' = [pc EXCEPT ![i] = "idle"]
    /\ req' = [req EXCEPT ![i] = NoRequestYet]
    /\ validated' = [validated EXCEPT ![i] = EmptyMap]
    /\ sent' = [sent EXCEPT ![i] = NoRequest]
    /\ answer' = [answer EXCEPT ![i] = NoAnswer]
    /\ outcome' = [outcome EXCEPT ![i] = NoOutcome]
    /\ UNCHANGED <<hfToken, registered, now>>

\* time passes
Tick ==
    /\ now < MaxTime
    /\ now' = now + 1
    /\ UNCHANGED <<hfToken, registered, pc, req, validated, sent, answer, outcome>>

\* the steps of the call in slot i, its requests drawn from R
Step(i, R) ==
    \/ \E r \in R : Dispatch(i, r)
    \/ Greeting(i)
    \/ Calculator(i)
    \/ GetTime(i)
    \/ GenerateImage(i)
    \/ \E reply \in ImageReplies : GenerateImageReply(i, reply)
    \/ Geocode(i)
    \/ \E reply \in GeocodeReplies : GeocodeReply(i, reply)
    \/ GetWeather(i)
    \/ \E reply \in WeatherReplies : GetWeatherReply(i, reply)
    \/ ServerInfo(i)
    \/ CodeReview(i)
    \/ Respond(i)

\* one dispatch at a time, over every request
Next == Step(1, Requests) \/ Tick
Spec == Init /\ [][Next]_vars

\* two dispatches in flight, interleaved in every order
NextConcurrent == (\E i \in Slots : Step(i, ConcurrentRequests)) \/ Tick
SpecConcurrent == Init /\ [][NextConcurrent]_vars


(***************************************************************************)
(* What the properties below speak of.                                     *)
(***************************************************************************)
\* The handler of slot i has been called: the dispatch is past validation.
HandlerRan(i) ==
    \/ pc[i] \in {"invoked", "awaiting"}
    \/ pc[i] = "done" /\ "issues" \notin DOMAIN outcome[i]

\* The dispatch of slot i ended before the handler, in resolution or validation.
Rejected(i) == pc[i] = "done" /\ "issues" \in DOMAIN outcome[i]

HasIssue(o, path, codes) ==
    /\ "issues" \in DOMAIN o
    /\ \E k \in 1..Len(o.issues) : o.issues[k].path = path /\ o.issues[k].code \in codes

IssueCodes == {"invalid_type", "too_small", "too_big", "invalid_enum_value"}

\* The argument map m satisfies every constraint of the shape: required keys
\* are there, and every declared key that is there has its type, lies within
\* its bounds and is one of its literals.
Conforms(shape, m) ==
    \A k \in 1..Len(shape) :
        LET z == shape[k].type
            f == shape[k].name
        IN  /\ f \in DOMAIN m \/ z.optional
            /\ f \in DOMAIN m =>
                 /\ m[f].t = (IF z.kind = "number" THEN "number" ELSE "string")
                 /\ z.kind = "number" /\ z.hasMin => m[f].n >= z.min
                 /\ z.kind = "number" /\ z.hasMax => m[f].n <= z.max
                 /\ z.kind = "enum" => m[f].s \in z.values

IsCall(i, kind, name) == req[i].kind = kind /\ req[i].name = name

(***************************************************************************)
(* C1                                                                      *)
(***************************************************************************)
TextBlockOk(b) == DOMAIN b = {"type", "text"} /\ b.type = "text"
ImageBlockOk(b) == DOMAIN b = {"type", "data", "mimeType"} /\ b.type = "image"

\* a well-formed result of the kind of capability called
WellFormedEnvelope(kind, v) ==
    CASE kind = "tool" ->
            /\ "content" \in DOMAIN v
            /\ DOMAIN v \subseteq {"content", "annotations"}
            /\ Len(v.content) >= 1
            /\ \A k \in 1..Len(v.content) : TextBlockOk(v.content[k]) \/ ImageBlockOk(v.content[k])
      [] kind = "resource" ->
            /\ DOMAIN v = {"contents"}
            /\ Len(v.contents) >= 1
            /\ \A k \in 1..Len(v.contents) : {"uri", "text"} \subseteq DOMAIN v.contents[k]
      [] kind = "prompt" ->
            /\ DOMAIN v = {"messages"}
            /\ Len(v.messages) >= 1
            /\ \A k \in 1..Len(v.messages) :
                 /\ v.messages[k].role \in {"user", "assistant"}
                 /\ TextBlockOk(v.messages[k].content)
      [] OTHER -> FALSE

WellFormedError(o) == "message" \in DOMAIN o /\ "value" \notin DOMAIN o /\ o.message # ""

\* C1: every dispatch that has ended, whatever stage failed, ended in exactly
\* one of a well-formed envelope and a well-formed error with a message; a
\* dispatch that has not ended has no outcome.
C1_ExactlyOneOutcome ==
    \A i \in Slots :
        IF pc[i] = "done"
        THEN \/ /\ outcome[i].completion = "return"
                /\ DOMAIN outcome[i] = {"completion", "value"}
                /\ WellFormedEnvelope(req[i].kind, outcome[i].value)
             \/ /\ outcome[i].completion = "throw"
                /\ WellFormedError(outcome[i])
        ELSE outcome[i] = NoOutcome

\* a handler failure past an upstream answer: the forecast body is no JSON
C1_Witness ==
    /\ pc[1] = "done"
    /\ IsCall(1, "tool", "get_weather")
    /\ answer[1] = Http(200, "OK", InvalidBody)
    /\ outcome[1] = Throw(SyntaxErrorMessage)

(***************************************************************************)
(* C2                                                                      *)
(***************************************************************************)
ScenarioE == Request("tool", "get_weather", ("latitude" :> Num(95)) @@ ("longitude" :> Num(0)))

\* C2: a handler is called only with arguments that satisfy its shape, and
\* a dispatch whose arguments do not satisfy it ends in a validation failure
\* without the handler having run or any outbound request having been sent;
\* latitude 95 fails as out of range on latitude.
C2_ValidationPrecedesInvocation ==
    \A i \in Slots :
        /\ HandlerRan(i) =>
             /\ Conforms(ShapeOf(req[i].name), req[i].arguments)
             /\ Conforms(ShapeOf(req[i].name), validated[i])
             /\ DOMAIN validated[i] \subseteq ShapeKeys(ShapeOf(req[i].name))
        /\ (Resolve(req[i].kind, req[i].name)
            /\ ~Conforms(ShapeOf(req[i].name), req[i].arguments)) =>
             /\ Rejected(i)
             /\ outcome[i].completion = "throw"
             /\ outcome[i].issues # <<>>
             /\ sent[i] = NoRequest
             /\ answer[i] = NoAnswer
        /\ req[i] = ScenarioE => HasIssue(outcome[i], "latitude", {"too_big"})

C2_Witness ==
    /\ pc[1] = "done"
    /\ req[1] = ScenarioE
    /\ HasIssue(outcome[1], "latitude", {"too_big"})
    /\ sent[1] = NoRequest

(***************************************************************************)
(* C3                                                                      *)
(***************************************************************************)
Bound(tool, field, min, max) == [tool |-> tool, field |-> field, min |-> min, max |-> max]

\* the bounds the claim states
StatedBounds ==
    { Bound("get_weather", "latitude", -90, 90),
      Bound("get_weather", "longitude", -180, 180),
      Bound("get_weather", "forecast_days", 1, 16),
      Bound("geocode", "limit", 1, 40) }

Supplied(i, d) ==
    /\ IsCall(i, "tool", d.tool)
    /\ d.field \in DOMAIN req[i].arguments
    /\ req[i].arguments[d.field].t = "number"

\* C3: a number below the minimum or above the maximum of a bounded field
\* always fails validation as out of range on that field; the minimum and
\* the maximum themselves raise no issue on the field, and the dispatch
\* reaches the handler when the other arguments are valid too.
C3_BoundsInclusive ==
    \A i \in Slots : \A d \in StatedBounds :
        Supplied(i, d) =>
            LET v == req[i].arguments[d.field].n
            IN  /\ v < d.min => Rejected(i) /\ HasIssue(outcome[i], d.field, {"too_small"})
                /\ v > d.max => Rejected(i) /\ HasIssue(outcome[i], d.field, {"too_big"})
                /\ v \in {d.min, d.max} =>
                     /\ ~HasIssue(outcome[i], d.field, IssueCodes)
                     /\ Conforms(ShapeOf(d.tool), req[i].arguments) => HandlerRan(i)

\* every bounded field of get_weather at a bound, and the forecast requested
C3_Witness ==
    /\ pc[1] = "awaiting"
    /\ IsCall(1, "tool", "get_weather")
    /\ req[1].arguments = ("latitude" :> Num(90)) @@ ("longitude" :> Num(-180))
                            @@ ("forecast_days" :> Num(16))
    /\ sent[1].latitude = "90" /\ sent[1].longitude = "-180" /\ sent[1].forecast_days = "16"

(***************************************************************************)
(* C4                                                                      *)
(***************************************************************************)
DefaultOf(tool, field, default) == [tool |-> tool, field |-> field, default |-> default]

\* the defaults the claim states
StatedDefaults ==
    { DefaultOf("greeting", "language", Str("ko")),
      DefaultOf("geocode", "limit", Num(1)),
      DefaultOf("get_weather", "timezone", Str("auto")),
      DefaultOf("get_weather", "forecast_days", Num(3)) }

KoreanGreetingSam == "Annyeonghaseyo, Sam-nim! :)"
EnglishGreetingSam == "Hello, Sam! (wave)"

GreetedSam(i, language) ==
    /\ pc[i] = "done"
    /\ HandlerRan(i)
    /\ IsCall(i, "tool", "greeting")
    /\ req[i].arguments.name = Str("Sam")
    /\ IF language = "" THEN "language" \notin DOMAIN req[i].arguments
       ELSE "language" \in DOMAIN req[i].arguments /\ req[i].arguments.language = Str(language)

\* C4: the handler receives the stated default for an optional field that
\* is omitted and the supplied value for one that is supplied; greeting Sam
\* with no language gives the Korean greeting, with language en the English.
C4_DefaultsApplied ==
    \A i \in Slots :
        /\ \A d \in StatedDefaults :
             (HandlerRan(i) /\ IsCall(i, "tool", d.tool)) =>
                 /\ d.field \in DOMAIN validated[i]
                 /\ validated[i][d.field] =
                        IF d.field \in DOMAIN req[i].arguments
                        THEN req[i].arguments[d.field] ELSE d.default
        /\ GreetedSam(i, "") =>
             outcome[i] = Return([content |-> << TextBlock(KoreanGreetingSam) >>])
        /\ GreetedSam(i, "ko") =>
             outcome[i] = Return([content |-> << TextBlock(KoreanGreetingSam) >>])
        /\ GreetedSam(i, "en") =>
             outcome[i] = Return([content |-> << TextBlock(EnglishGreetingSam) >>])
        /\ (pc[i] = "awaiting" /\ IsCall(i, "tool", "geocode")
            /\ "limit" \notin DOMAIN req[i].arguments) => sent[i].limit = "1"
        /\ (pc[i] = "awaiting" /\ IsCall(i, "tool", "get_weather")) =>
             /\ "timezone" \notin DOMAIN req[i].arguments => sent[i].timezone = "auto"
             /\ "forecast_days" \notin DOMAIN req[i].arguments => sent[i].forecast_days = "3"

C4_Witness ==
    /\ GreetedSam(1, "")
    /\ req[1].arguments = "name" :> Str("Sam")
    /\ validated[1] = ("name" :> Str("Sam")) @@ ("language" :> Str("ko"))
    /\ outcome[1].value.content[1].text = KoreanGreetingSam

(***************************************************************************)
(* C5                                                                      *)
(***************************************************************************)
\* the required fields of each capability
RequiredFields(name) ==
    CASE name = "greeting" -> {"name"}
      [] name = "calculator" -> {"a", "b", "operator"}
      [] name = "get_time" -> {"timeZone"}
      [] name = "generate_image" -> {"prompt"}
      [] name = "geocode" -> {"query"}
      [] name = "get_weather" -> {"latitude", "longitude"}
      [] name = "code_review" -> {"code"}
      [] OTHER -> {}

Missing(i) == RequiredFields(req[i].name) \ DOMAIN req[i].arguments

RequiredIssue(o, f) ==
    /\ "issues" \in DOMAIN o
    /\ \E k \in 1..Len(o.issues) : o.issues[k] = Issue(f, "invalid_type", "Required")

\* C5: a request to a registered capability that lacks a required field
\* fails validation with a missing-field issue on each field it lacks,
\* whatever else it carries, and the handler does not run.
C5_MissingRequiredField ==
    \A i \in Slots :
        (Resolve(req[i].kind, req[i].name) /\ Missing(i) # {}) =>
            /\ Rejected(i)
            /\ outcome[i].completion = "throw"
            /\ \A f \in Missing(i) : RequiredIssue(outcome[i], f)
            /\ validated[i] = EmptyMap
            /\ sent[i] = NoRequest

\* calculator without a, with a mistyped b, a bad operator and an extra key
C5_Witness ==
    /\ pc[1] = "done"
    /\ IsCall(1, "tool", "calculator")
    /\ req[1].arguments = ("b" :> Bool(FALSE)) @@ ("operator" :> Str("%"))
                            @@ ("extra" :> Bool(TRUE))
    /\ RequiredIssue(outcome[1], "a")

(***************************************************************************)
(* C6                                                                      *)
(***************************************************************************)
Operators == {"+", "-", "*", "/"}

ValidCalculation(i) ==
    /\ IsCall(i, "tool", "calculator")
    /\ {"a", "b", "operator"} \subseteq DOMAIN req[i].arguments
    /\ req[i].arguments.a.t = "number"
    /\ req[i].arguments.b.t = "number"
    /\ req[i].arguments.operator.t = "string"
    /\ req[i].arguments.operator.s \in Operators

Calculation(a, operator, b) ==
    Request("tool", "calculator",
            ("a" :> Num(a)) @@ ("b" :> Num(b)) @@ ("operator" :> Str(operator)))

CalculatorText(i) == outcome[i].value.content[1].text

\* C6: a calculator call with numbers a, b and one of the four operators,
\* other than a division by 0, returns one text block '<a> <op> <b> = <r>'
\* with r the sum, difference, product or quotient; 6 / 3 gives '6 / 3 = 2'.
C6_CalculatorResult ==
    \A i \in Slots :
        (pc[i] = "done" /\ ValidCalculation(i)) =>
            LET a == req[i].arguments.a.n
                b == req[i].arguments.b.n
                operator == req[i].arguments.operator.s
                r == CASE operator = "+" -> Int2Rat(a + b)
                       [] operator = "-" -> Int2Rat(a - b)
                       [] operator = "*" -> Int2Rat(a * b)
                       [] operator = "/" -> Rat(a, b)
            IN  ~(operator = "/" /\ b = 0) =>
                    /\ outcome[i] = Return([content |-> << TextBlock(
                            NumberToString(Int2Rat(a)) \o " " \o operator \o " "
                            \o NumberToString(Int2Rat(b)) \o " = " \o NumberToString(r)) >>])
                    /\ req[i] = Calculation(6, "/", 3) => CalculatorText(i) = "6 / 3 = 2"
                    /\ req[i] = Calculation(1, "/", -2) => CalculatorText(i) = "1 / -2 = -0.5"
                    /\ req[i] = Calculation(-3, "*", -2) => CalculatorText(i) = "-3 * -2 = 6"
                    /\ req[i] = Calculation(0, "-", 3) => CalculatorText(i) = "0 - 3 = -3"
                    /\ req[i] = Calculation(0, "/", -2) => CalculatorText(i) = "0 / -2 = 0"

C6_Witness ==
    /\ pc[1] = "done"
    /\ req[1] = Calculation(6, "/", 3)
    /\ outcome[1] = Return([content |-> << TextBlock("6 / 3 = 2") >>])

(***************************************************************************)
(* C7                                                                      *)
(***************************************************************************)
\* C7: a division by 0 ends in an error whose message says that one cannot
\* divide by 0, never in an envelope; with b = 0 and another operator the
\* call returns its text.
C7_DivisionByZero ==
    \A i \in Slots :
        (pc[i] = "done" /\ ValidCalculation(i) /\ req[i].arguments.b.n = 0) =>
            IF req[i].arguments.operator.s = "/"
            THEN outcome[i] = Throw(DivideByZeroMessage)
            ELSE /\ outcome[i].completion = "return"
                 /\ WellFormedEnvelope("tool", outcome[i].value)

C7_Witness ==
    /\ pc[1] = "done"
    /\ req[1] = Calculation(1, "/", 0)
    /\ outcome[1] = Throw(DivideByZeroMessage)


(***************************************************************************)
(* C8                                                                      *)
(***************************************************************************)
GeocodeEnded(i) == pc[i] = "done" /\ IsCall(i, "tool", "geocode") /\ HandlerRan(i)

\* the upstream answered successfully, with no match
ZeroMatches(a) ==
    /\ a.resolved /\ a.ok
    /\ \/ a.body.json = "null"
       \/ a.body.json = "array" /\ a.body.items = << >>

UpstreamFailed(a) == ~a.resolved \/ ~a.ok

NoResultsFor(i) == Return([content |-> << TextBlock(NoResultsText(validated[i].query.s)) >>])

\* C8 as stated: zero matches give the text that nothing was found, and an
\* error is produced only when the upstream call fails (network failure or
\* a status that is not OK).
C8_ErrorOnlyOnUpstreamFailure ==
    \A i \in Slots :
        GeocodeEnded(i) =>
            /\ ZeroMatches(answer[i]) => outcome[i] = NoResultsFor(i)
            /\ outcome[i].completion = "throw" => UpstreamFailed(answer[i])

\* the body of an OK answer is no JSON, no list, or a list with a null in it
BadBody(a) ==
    /\ a.resolved /\ a.ok
    /\ \/ a.body.json \in {"invalid", "object"}
       \/ a.body.json = "array" /\ \E k \in 1..Len(a.body.items) : a.body.items[k].isNull

\* C8 (amended): zero matches give the text that nothing was found, not an
\* error; an error is produced only when the upstream call fails or the body
\* of its OK answer is not JSON or not a list of places, and in each of these
\* cases.
C8_NoResultsIsSuccess ==
    \A i \in Slots :
        GeocodeEnded(i) =>
            /\ ZeroMatches(answer[i]) => outcome[i] = NoResultsFor(i)
            /\ outcome[i].completion = "throw" <=> (UpstreamFailed(answer[i]) \/ BadBody(answer[i]))
            /\ outcome[i].completion = "return" =>
                 WellFormedEnvelope("tool", outcome[i].value)

\* Scenario D: the empty query with limit 1 and an empty list in answer
C8_Witness ==
    /\ GeocodeEnded(1)
    /\ req[1].arguments = ("query" :> Str("")) @@ ("limit" :> Num(1))
    /\ answer[1] = Http(200, "OK", ArrayBody(<< >>))
    /\ outcome[1] = Return([content |-> << TextBlock("No results found for \"\".") >>])

(***************************************************************************)
(* C9                                                                      *)
(***************************************************************************)
SlotState(i) == <<pc[i], req[i], validated[i], sent[i], answer[i], outcome[i]>>

\* What the dispatch of request r ends in when it runs alone, given the
\* upstream answer a (if it asks upstream), the token and the clock.
Alone(r, a, token, clock) ==
    IF Cap(r.kind, r.name) \notin Registrations THEN NotFound(r.kind, r.name)
    ELSE LET parsed == SafeParse(ShapeOf(r.name), r.arguments)
         IN  IF ~parsed.success THEN InvalidArguments(r.kind, r.name, parsed.issues)
             ELSE CASE r.name = "greeting" -> greetingHandler(parsed.data)
                    [] r.name = "calculator" -> calculatorHandler(parsed.data)
                    [] r.name = "get_time" -> get_timeHandler(parsed.data, clock)
                    [] r.name = "generate_image" ->
                          IF TokenMissing(token) THEN generate_imageStart(parsed.data, token)
                          ELSE generate_imageHandler(parsed.data, a)
                    [] r.name = "geocode" -> geocodeHandler(parsed.data, a)
                    [] r.name = "get_weather" -> get_weatherHandler(parsed.data, a)
                    [] r.name = "server://info" -> server_infoHandler(clock)
                    [] r.name = "code_review" -> code_reviewHandler(parsed.data)

\* C9: with two dispatches in flight, a step of one (a failure of its handler
\* included) changes nothing of the other, and each ends in what it would
\* end in alone.
C9_Isolation ==
    [][\A i \in Slots :
         /\ SlotState(i)' # SlotState(i) =>
              \A j \in Slots \ {i} : SlotState(j)' = SlotState(j)
         /\ (pc[i] # "done" /\ pc'[i] = "done") =>
              outcome'[i] = Alone(req'[i], answer'[i], hfToken, now)]_vars

\* a handler has failed in one slot and the other dispatch has returned
C9_Witness ==
    /\ pc[1] = "done" /\ req[1] = Calculation(1, "/", 0)
    /\ outcome[1] = Throw(DivideByZeroMessage)
    /\ pc[2] = "done" /\ IsCall(2, "tool", "geocode")
    /\ outcome[2].completion = "return"

(***************************************************************************)
(* C10                                                                     *)
(***************************************************************************)
InfoEnded(i) == pc[i] = "done" /\ IsCall(i, "resource", "server://info")

\* the object whose text the resource returns
InfoOf(i) == outcome[i].value.contents[1].text.json

ListedPairs(info) ==
    { Cap("tool", info.tools[k].name) : k \in 1..Len(info.tools) }
    \cup { Cap("resource", info.resources[k].uri) : k \in 1..Len(info.resources) }
    \cup { Cap("prompt", info.prompts[k].name) : k \in 1..Len(info.prompts) }

\* the capabilities the claim names
StatedCapabilities ==
    { <<"tool", "greeting">>, <<"tool", "calculator">>, <<"tool", "get_time">>,
      <<"tool", "generate_image">>, <<"tool", "geocode">>, <<"tool", "get_weather">>,
      <<"resource", "server://info">>, <<"prompt", "code_review">> }

\* the listed required flag agrees with the registered type
RequiredAgrees(d, z) == d.type = z.kind /\ d.required = ~z.optional

\* the listed default, min and max agree with the registered type
LimitsAgree(d, z) ==
    /\ ("default" \in DOMAIN d) = z.hasDefault
    /\ z.hasDefault => d.default = z.default
    /\ ("min" \in DOMAIN d) = z.hasMin
    /\ z.hasMin => d.min = z.min
    /\ ("max" \in DOMAIN d) = z.hasMax
    /\ z.hasMax => d.max = z.max
    /\ ("values" \in DOMAIN d) = (z.kind = "enum")
    /\ z.kind = "enum" => d.values = z.values

Describes(d, z) == RequiredAgrees(d, z) /\ LimitsAgree(d, z)

EntryAgrees(entry, Agrees(_, _)) ==
    LET shape == ShapeOf(entry.name)
    IN  /\ DOMAIN entry.parameters = ShapeKeys(shape)
        /\ \A f \in DOMAIN entry.parameters :
             Agrees(entry.parameters[f], ShapeType(shape, f))

PairsListed(i) ==
    /\ outcome[i].completion = "return"
    /\ WellFormedEnvelope("resource", outcome[i].value)
    /\ ListedPairs(InfoOf(i)) = registered
    /\ ListedPairs(InfoOf(i)) = StatedCapabilities
    /\ Len(InfoOf(i).tools) + Len(InfoOf(i).resources) + Len(InfoOf(i).prompts)
         = Cardinality(registered)

\* C10 as stated: the listed pairs are exactly the registered ones, and the
\* listed required flag, default, min and max of every parameter agree with
\* the registered shapes.
C10_InfoAgreesWithSchemas ==
    \A i \in Slots :
        InfoEnded(i) =>
            /\ PairsListed(i)
            /\ \A k \in 1..Len(InfoOf(i).tools) : EntryAgrees(InfoOf(i).tools[k], Describes)
            /\ \A k \in 1..Len(InfoOf(i).prompts) : EntryAgrees(InfoOf(i).prompts[k], Describes)

\* the defaults listed for the optional parameters of code_review
ListedPromptDefaults ==
    [language |-> Str("auto"), focus_areas |-> Str("all"), include_suggestions |-> Str("true")]

\* C10 (amended): the listed pairs are exactly the registered ones; for the
\* six tools the listed required flag, default, min and max agree with the
\* registered shapes; for the prompt code_review the required flags agree,
\* but the defaults listed (auto, all, true) are declared by no registered
\* shape: they are the values the handler puts in place of an omitted
\* parameter.
C10_InfoListsCapabilities ==
    \A i \in Slots :
        /\ InfoEnded(i) =>
             /\ PairsListed(i)
             /\ \A k \in 1..Len(InfoOf(i).tools) : EntryAgrees(InfoOf(i).tools[k], Describes)
             /\ \A k \in 1..Len(InfoOf(i).prompts) :
                  /\ EntryAgrees(InfoOf(i).prompts[k], RequiredAgrees)
                  /\ \A f \in DOMAIN ListedPromptDefaults :
                       /\ InfoOf(i).prompts[k].parameters[f].default = ListedPromptDefaults[f]
                       /\ ~ShapeType(code_reviewShape, f).hasDefault
        /\ (pc[i] = "done" /\ IsCall(i, "prompt", "code_review") /\ HandlerRan(i)) =>
             \A f \in DOMAIN ListedPromptDefaults \ DOMAIN validated[i] :
                 outcome[i] = code_reviewHandler(validated[i] @@ (f :> ListedPromptDefaults[f]))

C10_Witness ==
    /\ InfoEnded(1)
    /\ req[1].arguments = EmptyMap
    /\ Len(InfoOf(1).tools) = 6
    /\ InfoOf(1).prompts[1].parameters.language.default = Str("auto")

(***************************************************************************)
(* C11                                                                     *)
(***************************************************************************)
\* the dispatch of slot i ended in a failure raised by its handler
HandlerFailed(i) == pc[i] = "done" /\ HandlerRan(i) /\ outcome[i].completion = "throw"

\* what the body of that handler raised
FailureOf(i) == Failure(req[i].name, validated[i], answer[i], hfToken)

ImagePrefix == "Error while generating the image: "
GeocodePrefix == "Error while geocoding: "
OpenMeteoPrefix == "Open-Meteo API error: "
\* the prefixes that tell a failure of the handler stage
StagePrefixes == {ImagePrefix, GeocodePrefix, OpenMeteoPrefix}

\* C11 as stated: the message of every failure raised by a handler, of every
\* capability, is a stage prefix followed by the handler's own failure message.
C11_HandlerFailureWrapped ==
    \A i \in Slots :
        HandlerFailed(i) => \E p \in StagePrefixes : outcome[i].message = p \o FailureOf(i)

\* the forecast service answered with a non-OK status or reported an error
ForecastRefused(a) ==
    a.resolved /\ (~a.ok \/ (a.body.json = "object" /\ a.body.data.error))

\* C11 as amended: the message of a failure raised by a handler is what the
\* handler threw. generate_image and geocode put their prefix before the
\* message of whatever their body raised; get_weather puts its prefix before
\* the status of a non-OK answer and before the reason of a reported error
\* only, and passes a rejection of fetch or of the parse of the body on as it
\* is; calculator throws its message without a prefix; get_time throws a fixed
\* text naming the timeZone argument, in which the message of what was
\* raised is not kept. No other handler fails.
C11_HandlerFailureMessage ==
    \A i \in Slots :
        HandlerFailed(i) =>
            LET m == outcome[i].message
                f == FailureOf(i)
                name == req[i].name
            IN  CASE name = "generate_image" -> m = ImagePrefix \o f
                  [] name = "geocode" -> m = GeocodePrefix \o f
                  [] name = "get_weather" ->
                        IF ForecastRefused(answer[i]) THEN m = OpenMeteoPrefix \o f
                        ELSE m = f
                  [] name = "calculator" -> m = f
                  [] name = "get_time" ->
                        /\ m = InvalidTimeZoneMessage(validated[i].timeZone.s)
                        /\ \A p \in StagePrefixes \cup {""} : m # p \o f
                  [] OTHER -> FALSE

\* textToImage rejected with an Error: its message follows the prefix
C11_Witness ==
    /\ HandlerFailed(1)
    /\ IsCall(1, "tool", "generate_image")
    /\ "isError" \in DOMAIN answer[1] /\ answer[1].isError
    /\ outcome[1].message = ImagePrefix \o "Model is overloaded"

(***************************************************************************)
(* C12                                                                     *)
(***************************************************************************)
\* the dispatch of slot i ended in resolution: no capability was found
EndedNotFound(i) ==
    /\ Rejected(i)
    /\ outcome[i].completion = "throw"
    /\ outcome[i].issues = <<>>

\* C12: the registry is what startup registered, eight different pairs, in
\* every state that dispatches of any outcome can lead to; so a request for
\* a pair registered at startup is resolved to that pair's record (what its
\* handler is given conforms to the shape registered with it), and a request
\* for any other pair ends as not found.
C12_RegistryWriteOnce ==
    /\ registered = Registrations
    /\ Cardinality(registered) = 8
    /\ \A i \in Slots :
          pc[i] # "idle" =>
              IF Cap(req[i].kind, req[i].name) \in Registrations
              THEN /\ ~EndedNotFound(i)
                   /\ HandlerRan(i) =>
                        /\ DOMAIN validated[i] \subseteq ShapeKeys(ShapeOf(req[i].name))
                        /\ Conforms(ShapeOf(req[i].name), validated[i])
              ELSE EndedNotFound(i)

\* a registered name asked for under another kind is not found, and the
\* registry is as it was
C12_Witness ==
    /\ IsCall(1, "resource", "greeting")
    /\ EndedNotFound(1)
    /\ Cap("tool", "greeting") \in registered
    /\ Cap("resource", "greeting") \notin registered

(***************************************************************************)
(* C13                                                                     *)
(***************************************************************************)
\* Slots i and j hold two ended dispatches of the same request, to which the
\* upstream service, where one is called, gave the same answer; the result of
\* the one is kept while the other runs, in any order and with any lapse
\* of time between them.
SameRequestTwice(i, j) ==
    /\ i # j
    /\ pc[i] = "done" /\ pc[j] = "done"
    /\ req[i] = req[j]
    /\ answer[i] = answer[j]

\* C13 as stated: the same request dispatched twice, the server's state (its
\* registry and configuration never change) and the upstream answer being
\* the same, ends in identical results.
C13_Idempotent ==
    \A i, j \in Slots : SameRequestTwice(i, j) => outcome[i] = outcome[j]

\* the capabilities whose handler reads the clock (new Date())
ClockReaders == {"get_time", "server://info"}

\* C13 as amended: every ended dispatch has the result its request gives on
\* its own, for the token configured, the upstream answer it got and some
\* reading of the clock, whatever was dispatched before; so two dispatches
\* of the same request with the same upstream answer end in identical
\* results, except that the results of get_time and server://info carry the
\* time of the call and are identical only for the same reading of the clock.
C13_IdempotentButForTheClock ==
    \A i, j \in Slots :
        (pc[i] = "done" /\ pc[j] = "done" /\ req[i] = req[j] /\ answer[i] = answer[j]) =>
            /\ \E c \in 0..MaxTime : outcome[i] = Alone(req[i], answer[i], hfToken, c)
            /\ \E c \in 0..MaxTime : outcome[j] = Alone(req[j], answer[j], hfToken, c)
            /\ req[i].name \notin ClockReaders => outcome[i] = outcome[j]

\* two calculator calls with the same a, b and operator returned the same text
C13_Witness ==
    /\ SameRequestTwice(1, 2)
    /\ IsCall(1, "tool", "calculator")
    /\ outcome[1].completion = "return"
    /\ outcome[1].value.content[1].text = "6 / 3 = 2"
    /\ outcome[2] = outcome[1]

====
